---- MODULE Spec2Model ----
(***************************************************************************)
(* Model of prefect_slack/credentials.py: the SlackCredentials block, the  *)
(* SlackWebhook notification block, its two notify paths and the failure   *)
(* check they share.                                                       *)
(*                                                                         *)
(* The Slack client library is the environment: a send either raises a     *)
(* transport error or answers with a response (status_code, body).  The    *)
(* host framework is the environment too: its NotificationBlock base class *)
(* may or may not carry the private attribute _raise_on_failure, which its *)
(* raise_on_failure() context manager switches on and off.                 *)
(***************************************************************************)
EXTENDS Integers, Sequences, FiniteSets, TLC

VARIABLES
    creds,      \* the SlackCredentials block: [token |-> SecretStr]
    webhook,    \* the SlackWebhook block: [url |-> SecretStr]
    host,       \* the host framework as seen from the webhook block
    heap,       \* every client handle constructed so far, in construction order
    wire,       \* every send the client library has received, in arrival order
    calls       \* every invocation of a method of the two blocks, in call order

vars == <<creds, webhook, host, heap, wire, calls>>

-----------------------------------------------------------------------------
(* Bounds and input sets *)

MaxCalls == 2

\* Optional[str]: None is the empty sequence, a string s is <<s>>.
None == << >>

\* The stored secrets of one deployment: a bot token and a webhook URL.
Configs ==
    { [token |-> "xoxb-AAA", url |-> "https://hooks.slack.com/AAA"],
      [token |-> "xoxb-BBB", url |-> "https://hooks.slack.com/BBB"] }

\* The arguments of one notify call.
NotifyArgs ==
    { [body |-> "hello", subject |-> None],
      [body |-> "hello", subject |-> <<"ignored">>],
      [body |-> "hi", subject |-> <<"ignored">>] }

\* What the stubbed client answers to one send: the two sides of the status
\* boundary, and an error status further up with another body.
Responses ==
    { [kind |-> "response", status_code |-> 399, body |-> "ok"],
      [kind |-> "response", status_code |-> 400, body |-> "no_text"],
      [kind |-> "response", status_code |-> 404, body |-> "invalid_payload"] }
TransportErrors ==
    { [kind |-> "error", error |-> "TransportError", message |-> <<"connection reset">>] }
Outcomes == Responses \cup TransportErrors

-----------------------------------------------------------------------------
(* pydantic.SecretStr: wraps the raw value; str() of it is masked, the raw *)
(* value comes back only through get_secret_value().                       *)

SecretStr(v) == [secret_value |-> v, display |-> "**********"]

get_secret_value(s) == s.secret_value

-----------------------------------------------------------------------------
(* The host framework.  version "new" is a host that has failure surfacing  *)
(* (the private attribute _raise_on_failure of NotificationBlock, False     *)
(* until raise_on_failure() is entered, and the NotificationError type);    *)
(* version "old" is a host that predates both.                             *)

Hosts == { [version |-> "old", flag |-> FALSE], [version |-> "new", flag |-> FALSE] }

private_attributes(h) == IF h.version = "new" THEN {"_raise_on_failure"} ELSE {}

\* What the host asks for: "absent", "off" or "on".
Surfacing(h) ==
    IF "_raise_on_failure" \notin private_attributes(h) THEN "absent"
    ELSE IF h.flag THEN "on" ELSE "off"

-----------------------------------------------------------------------------
(* Python values the failure check handles, tagged with their type. *)

PyBool(b) == [type |-> "bool", val |-> b]
BoundMethod(name) == [type |-> "method", name |-> name]

\* bool(v): a bool is itself, a bound method is always true.
truthy(v) == IF v.type = "bool" THEN v.val ELSE TRUE

\* The names the class body of SlackWebhook binds to functions.
SlackWebhook_methods == {"get_client", "_raise_on_failure", "notify_async", "notify"}

\* getattr(self, name, default) on a SlackWebhook instance.  Ordinary
\* attribute lookup finds a function of the class first and returns it bound;
\* the base class's private attributes are reached only when ordinary lookup
\* finds nothing, and the default only when they have no such name either.
getattr(h, name, default) ==
    IF name \in SlackWebhook_methods THEN BoundMethod(name)
    ELSE IF name \in private_attributes(h) THEN PyBool(h.flag)
    ELSE default

\* try: from prefect.blocks.abstract import NotificationError
\* except ImportError: NotificationError = Exception
import_NotificationError(h) ==
    IF h.version = "new" THEN "NotificationError" ELSE "Exception"

-----------------------------------------------------------------------------
(* How a call ends. *)

Returned == [kind |-> "returned"]
Raised(type, message) == [kind |-> "raised", type |-> type, message |-> message]
NoResult == [kind |-> "running"]
NoOutcome == [kind |-> "none"]

-----------------------------------------------------------------------------
(* The methods, each returning what it constructs or how it ends. *)

\* A constructor call: a new object at the end of the heap, and the reference to it.
New(hp, obj) == [heap |-> Append(hp, obj), ref |-> Len(hp) + 1]

\* Faulty variant: the token is taken from str(self.token), the masked form.
SlackCredentials_get_client_masked(hp, self) ==
    New(hp, [class |-> "AsyncWebClient", token |-> self.token.display])

\* SlackCredentials.get_client
SlackCredentials_get_client(hp, self) ==
    New(hp, [class |-> "AsyncWebClient", token |-> get_secret_value(self.token)])

\* Faulty variant: the URL is taken from str(self.url), the masked form.
SlackWebhook_get_client_masked(hp, self, sync_client) ==
    IF sync_client
    THEN New(hp, [class |-> "WebhookClient", url |-> self.url.display])
    ELSE New(hp, [class |-> "AsyncWebhookClient", url |-> self.url.display])

\* SlackWebhook.get_client
SlackWebhook_get_client(hp, self, sync_client) ==
    IF sync_client
    THEN New(hp, [class |-> "WebhookClient", url |-> get_secret_value(self.url)])
    ELSE New(hp, [class |-> "AsyncWebhookClient", url |-> get_secret_value(self.url)])

\* Faulty variant: the comparison is strict, so status 400 passes.
SlackWebhook_raise_on_failure_strict(h, response) ==
    IF truthy(getattr(h, "_raise_on_failure", PyBool(FALSE)))
    THEN LET NotificationError == import_NotificationError(h) IN
         IF response.status_code > 400
         THEN Raised(NotificationError, <<"Failed to send message: ", response.body>>)
         ELSE Returned
    ELSE Returned

\* Faulty variant: every status that is not a 2xx counts as a failure.
SlackWebhook_raise_on_failure_non2xx(h, response) ==
    IF truthy(getattr(h, "_raise_on_failure", PyBool(FALSE)))
    THEN LET NotificationError == import_NotificationError(h) IN
         IF response.status_code >= 300
         THEN Raised(NotificationError, <<"Failed to send message: ", response.body>>)
         ELSE Returned
    ELSE Returned

\* SlackWebhook._raise_on_failure
SlackWebhook_raise_on_failure(h, response) ==
    IF truthy(getattr(h, "_raise_on_failure", PyBool(FALSE)))
    THEN LET NotificationError == import_NotificationError(h) IN
         IF response.status_code >= 400
         THEN Raised(NotificationError, <<"Failed to send message: ", response.body>>)
         ELSE Returned
    ELSE Returned

\* Faulty variant: the subject, when given, is sent as the text.
notify_send_subject(hp, self, body, subject) ==
    LET g == SlackWebhook_get_client(hp, self, TRUE) IN
    [heap |-> g.heap, client |-> g.ref,
     sends |-> << [text |-> IF subject = None THEN body ELSE subject[1]] >>]

\* SlackWebhook.notify, the blocking body up to the send: the client it
\* builds and the payloads it hands to client.send.
notify_send(hp, self, body, subject) ==
    LET g == SlackWebhook_get_client(hp, self, TRUE) IN
    [heap |-> g.heap, client |-> g.ref, sends |-> << [text |-> body] >>]

\* Faulty variant: a try/except around the send turns its error into the block's own.
notify_finish_wrapped(h, outcome) ==
    IF outcome.kind = "error"
    THEN [checked |-> FALSE,
          result |-> Raised(import_NotificationError(h), outcome.message)]
    ELSE [checked |-> TRUE, result |-> SlackWebhook_raise_on_failure(h, outcome)]

\* SlackWebhook.notify, from the send's outcome on: an exception of
\* client.send leaves the method at once, a response goes to the check.
notify_finish(h, outcome) ==
    IF outcome.kind = "error"
    THEN [checked |-> FALSE, result |-> Raised(outcome.error, outcome.message)]
    ELSE [checked |-> TRUE, result |-> SlackWebhook_raise_on_failure(h, outcome)]

\* Faulty variant: the send is attempted a second time.
notify_async_send_twice(hp, self, body, subject) ==
    LET g == SlackWebhook_get_client(hp, self, FALSE) IN
    [heap |-> g.heap, client |-> g.ref, sends |-> << [text |-> body], [text |-> body] >>]

\* Faulty variant: the suspension-based path asks for the blocking client.
notify_async_send_blocking_client(hp, self, body, subject) ==
    LET g == SlackWebhook_get_client(hp, self, TRUE) IN
    [heap |-> g.heap, client |-> g.ref, sends |-> << [text |-> body] >>]

\* _notify_async up to the await: get_client() with sync_client left at its
\* default, and the payloads handed to client.send.
notify_async_send(hp, self, body, subject) ==
    LET g == SlackWebhook_get_client(hp, self, FALSE) IN
    [heap |-> g.heap, client |-> g.ref, sends |-> << [text |-> body] >>]

\* Faulty variant: the suspension-based path forgets the failure check.
notify_async_finish_unchecked(h, outcome) ==
    IF outcome.kind = "error"
    THEN [checked |-> FALSE, result |-> Raised(outcome.error, outcome.message)]
    ELSE [checked |-> TRUE, result |-> Returned]

\* _notify_async from the await's outcome on.
notify_async_finish(h, outcome) ==
    IF outcome.kind = "error"
    THEN [checked |-> FALSE, result |-> Raised(outcome.error, outcome.message)]
    ELSE [checked |-> TRUE, result |-> SlackWebhook_raise_on_failure(h, outcome)]

\* @async_dispatch(_notify_async): the path notify takes in a calling context.
async_dispatch(ctx) == IF ctx = "async" THEN "async" ELSE "sync"

\* The sends of one call as the client library receives them.
OnWire(id, client, sends) ==
    [k \in 1..Len(sends) |-> [call |-> id, client |-> client, payload |-> sends[k]]]

-----------------------------------------------------------------------------
(* The state machine *)

Init ==
    /\ \E c \in Configs :
         /\ creds = [token |-> SecretStr(c.token)]
         /\ webhook = [url |-> SecretStr(c.url)]
    /\ host \in Hosts
    /\ heap = << >>
    /\ wire = << >>
    /\ calls = << >>

\* creds.get_client()
CredentialsGetClient ==
    /\ Len(calls) < MaxCalls
    /\ LET g == SlackCredentials_get_client(heap, creds) IN
       /\ heap' = g.heap
       /\ calls' = Append(calls, [op |-> "SlackCredentials.get_client",
                                  client |-> g.ref, result |-> Returned])
    /\ UNCHANGED <<creds, webhook, host, wire>>

\* webhook.get_client(), webhook.get_client(sync_client=...)
WebhookGetClient ==
    /\ Len(calls) < MaxCalls
    /\ \E arg \in {None, <<TRUE>>, <<FALSE>>} :
         LET sync_client == IF arg = None THEN FALSE ELSE arg[1]
             g == SlackWebhook_get_client(heap, webhook, sync_client) IN
         /\ heap' = g.heap
         /\ calls' = Append(calls, [op |-> "SlackWebhook.get_client", arg |-> arg,
                                    client |-> g.ref, result |-> Returned])
    /\ UNCHANGED <<creds, webhook, host, wire>>

\* webhook.notify(body, subject) from a plain blocking context: the call
\* occupies the caller until the send has returned or failed.
NotifyBlocking ==
    /\ Len(calls) < MaxCalls
    /\ async_dispatch("blocking") = "sync"
    /\ \E a \in NotifyArgs, outcome \in Outcomes :
         LET body == a.body
             subject == a.subject
             id == Len(calls) + 1
             s == notify_send(heap, webhook, body, subject)
             f == notify_finish(host, outcome) IN
         /\ heap' = s.heap
         /\ wire' = wire \o OnWire(id, s.client, s.sends)
         /\ calls' = Append(calls,
                [op |-> "notify", ctx |-> "blocking", path |-> "sync",
                 body |-> body, subject |-> subject, client |-> s.client,
                 outcome |-> outcome,
                 surfacing |-> IF f.checked THEN Surfacing(host) ELSE "unchecked",
                 checked |-> f.checked, result |-> f.result])
    /\ UNCHANGED <<creds, webhook, host>>

\* webhook.notify(body, subject) from a context that supports suspension, or
\* webhook.notify_async(body, subject): _notify_async runs up to its await.
NotifyAsyncStart ==
    /\ Len(calls) < MaxCalls
    /\ async_dispatch("async") = "async"
    /\ \E op \in {"notify", "notify_async"}, a \in NotifyArgs :
         LET body == a.body
             subject == a.subject
             id == Len(calls) + 1
             s == notify_async_send(heap, webhook, body, subject) IN
         /\ heap' = s.heap
         /\ wire' = wire \o OnWire(id, s.client, s.sends)
         /\ calls' = Append(calls,
                [op |-> op, ctx |-> "async", path |-> "async",
                 body |-> body, subject |-> subject, client |-> s.client,
                 outcome |-> NoOutcome, surfacing |-> "unchecked",
                 checked |-> FALSE, result |-> NoResult])
    /\ UNCHANGED <<creds, webhook, host>>

\* The awaited send of a suspended call completes and _notify_async resumes.
NotifyAsyncResume ==
    \E i \in 1..Len(calls), outcome \in Outcomes :
        /\ calls[i].op \in {"notify", "notify_async"}
        /\ calls[i].result = NoResult
        /\ LET f == notify_async_finish(host, outcome) IN
           calls' = [calls EXCEPT ![i] =
                [@ EXCEPT !.outcome = outcome,
                          !.surfacing = IF f.checked THEN Surfacing(host) ELSE "unchecked",
                          !.checked = f.checked,
                          !.result = f.result]]
        /\ UNCHANGED <<creds, webhook, host, heap, wire>>

\* with webhook.raise_on_failure(): the host switches failure surfacing on ...
RaiseOnFailureEnter ==
    /\ host.version = "new"
    /\ ~host.flag
    /\ host' = [host EXCEPT !.flag = TRUE]
    /\ UNCHANGED <<creds, webhook, heap, wire, calls>>

\* ... and off again when the block is left.
RaiseOnFailureExit ==
    /\ host.version = "new"
    /\ host.flag
    /\ host' = [host EXCEPT !.flag = FALSE]
    /\ UNCHANGED <<creds, webhook, heap, wire, calls>>

Next ==
    \/ CredentialsGetClient
    \/ WebhookGetClient
    \/ NotifyBlocking
    \/ NotifyAsyncStart
    \/ NotifyAsyncResume
    \/ RaiseOnFailureEnter
    \/ RaiseOnFailureExit

Spec == Init /\ [][Next]_vars

-----------------------------------------------------------------------------
(* Vocabulary of the properties *)

IsNotify(c) == c.op \in {"notify", "notify_async"}
Calls == 1..Len(calls)
\* Call i is a notify call; one that has ended; one whose send was answered
\* with a response; one whose send raised a transport error.
Notify(i) == IsNotify(calls[i])
Done(i) == Notify(i) /\ calls[i].result # NoResult
Answered(i) == Done(i) /\ calls[i].outcome.kind = "response"
Failed(i) == Done(i) /\ calls[i].outcome.kind = "error"

\* The positions of the wire that carry a send of call i, and what call i
\* transmitted: how many sends, and which payloads.
WireOf(i) == { k \in 1..Len(wire) : wire[k].call = i }
PayloadsOf(i) ==
    [count |-> Cardinality(WireOf(i)), payloads |-> { wire[k].payload : k \in WireOf(i) }]

Contains(message, text) == \E k \in 1..Len(message) : message[k] = text

-----------------------------------------------------------------------------
\* C1: when the host's failure-surfacing capability is absent or switched off,
\* notify and notify_async return normally for every response, whatever its
\* status code.
C1_LegacyNeverRaises ==
    \A i \in Calls :
        (Answered(i) /\ calls[i].surfacing \in {"absent", "off"}) =>
            calls[i].result = Returned

\* C2: when failure surfacing is on and the response's status code is >= 400,
\* notify fails, on either path, with a NotificationError whose message
\* contains the response body; and a call that failed so had its send on the
\* wire and answered before.
C2_RaisesWhenSurfacing ==
    \A i \in Calls :
        /\ ( /\ Answered(i)
             /\ calls[i].surfacing = "on"
             /\ calls[i].outcome.status_code >= 400 ) =>
               /\ calls[i].result.kind = "raised"
               /\ calls[i].result.type = "NotificationError"
               /\ Contains(calls[i].result.message, calls[i].outcome.body)
        /\ ( /\ Done(i)
             /\ calls[i].result.kind = "raised"
             /\ calls[i].result.type \in {"NotificationError", "Exception"} ) =>
               /\ calls[i].outcome.kind = "response"
               /\ calls[i].checked
               /\ WireOf(i) # {}

C2_Witness ==
    /\ \E i \in Calls :
          /\ Answered(i)
          /\ calls[i].path = "sync" /\ calls[i].surfacing = "on"
          /\ calls[i].outcome.status_code = 400
          /\ calls[i].result.kind = "raised"
    /\ \E j \in Calls :
          /\ Answered(j)
          /\ calls[j].path = "async" /\ calls[j].surfacing = "on"
          /\ calls[j].outcome.status_code = 404
          /\ calls[j].result.kind = "raised"

\* C3: for every response with a status code below 400, notify returns
\* normally on both paths, whatever the host's failure-surfacing setting.
C3_ReturnsBelow400 ==
    \A i \in Calls :
        (Answered(i) /\ calls[i].outcome.status_code < 400) =>
            calls[i].result = Returned

C3_Witness ==
    /\ \E i \in Calls :
          /\ Answered(i)
          /\ calls[i].path = "sync" /\ calls[i].surfacing = "on"
          /\ calls[i].outcome.status_code = 399 /\ calls[i].result = Returned
    /\ \E j \in Calls :
          /\ Answered(j)
          /\ calls[j].path = "async" /\ calls[j].surfacing \in {"absent", "off"}
          /\ calls[j].outcome.status_code = 399 /\ calls[j].result = Returned

\* C4: a call on the blocking path and a call on the suspension-based path
\* with the same body, subject, failure-surfacing setting and send outcome
\* transmit the same payloads and end in the same result.
C4_PathsEquivalent ==
    \A i \in Calls, j \in Calls :
        ( /\ Done(i) /\ Done(j)
          /\ calls[i].path = "sync" /\ calls[j].path = "async"
          /\ calls[i].body = calls[j].body
          /\ calls[i].subject = calls[j].subject
          /\ calls[i].surfacing = calls[j].surfacing
          /\ calls[i].outcome = calls[j].outcome ) =>
            /\ PayloadsOf(i) = PayloadsOf(j)
            /\ calls[i].result = calls[j].result
            /\ calls[i].checked = calls[j].checked

C4_Witness ==
    \E i \in Calls, j \in Calls :
        /\ Answered(i) /\ Answered(j)
        /\ calls[i].path = "sync" /\ calls[j].path = "async"
        /\ calls[i].body = calls[j].body
        /\ calls[i].subject = calls[j].subject
        /\ calls[i].surfacing = calls[j].surfacing
        /\ calls[i].outcome = calls[j].outcome
        /\ calls[i].outcome.status_code = 404
        /\ calls[i].result.kind = "raised"

\* C5: every payload a notify call transmits is exactly [text |-> body]; the
\* subject is in no field of it, and two calls with the same body transmit
\* the same payloads whatever their subjects.
C5_TextIsBody ==
    /\ \A k \in 1..Len(wire) :
          LET c == calls[wire[k].call] IN
          /\ wire[k].payload = [text |-> c.body]
          /\ \A f \in DOMAIN wire[k].payload :
                c.subject = None \/ wire[k].payload[f] # c.subject[1]
    /\ \A i \in Calls, j \in Calls :
          (Notify(i) /\ Notify(j) /\ calls[i].body = calls[j].body) =>
              PayloadsOf(i) = PayloadsOf(j)

C5_Witness ==
    \E i \in Calls, j \in Calls :
        /\ Notify(i) /\ Notify(j)
        /\ calls[i].body = "hello" /\ calls[j].body = "hello"
        /\ calls[i].subject = None /\ calls[j].subject = <<"ignored">>
        /\ calls[i].path = "sync" /\ calls[j].path = "async"
        /\ PayloadsOf(i) = [count |-> 1, payloads |-> { [text |-> "hello"] }]
        /\ PayloadsOf(j) = [count |-> 1, payloads |-> { [text |-> "hello"] }]

\* C6: a transport error of the client's send ends the call with that very
\* error (same type, same content), and the failure check is not run,
\* whatever the failure-surfacing setting.
C6_TransportErrorPropagates ==
    \A i \in Calls :
        Failed(i) =>
            /\ calls[i].result = Raised(calls[i].outcome.error, calls[i].outcome.message)
            /\ ~calls[i].checked

C6_Witness ==
    /\ host.flag
    /\ \E i \in Calls, j \in Calls :
          /\ Failed(i) /\ Failed(j)
          /\ calls[i].path = "sync" /\ calls[j].path = "async"
          /\ calls[i].result.type = "TransportError"
          /\ calls[j].result.type = "TransportError"

\* C7: every notify call puts exactly one send on the wire, whatever its
\* result; the wire holds as many sends as there were notify calls and
\* nothing else, and the sends of blocking calls arrive in call order.
C7_OneSendPerCall ==
    /\ \A i \in Calls : Notify(i) => Cardinality(WireOf(i)) = 1
    /\ Len(wire) = Cardinality({ i \in Calls : Notify(i) })
    /\ \A k \in 1..Len(wire) : wire[k].call \in Calls /\ Notify(wire[k].call)
    /\ \A k \in 1..Len(wire), l \in 1..Len(wire) :
          ( /\ calls[wire[k].call].path = "sync"
            /\ calls[wire[l].call].path = "sync"
            /\ wire[k].call < wire[l].call ) => k < l

C7_Witness ==
    \E i \in Calls, j \in Calls :
        /\ i < j
        /\ Done(i) /\ Done(j)
        /\ calls[i].path = "sync" /\ calls[j].path = "sync"
        /\ calls[i].result.kind = "raised" /\ calls[i].result.type = "NotificationError"
        /\ calls[j].result.kind = "raised" /\ calls[j].result.type = "TransportError"
        /\ Len(wire) = 2

\* C8: notify from a blocking context runs the blocking path and sends through
\* a WebhookClient; notify from a suspension-capable context, and notify_async,
\* run _notify_async and send through an AsyncWebhookClient; both clients are
\* bound to the stored webhook URL.
C8_RoutingAndClient ==
    \A i \in Calls :
        Notify(i) =>
            /\ calls[i].ctx = "blocking" =>
                  /\ calls[i].path = "sync"
                  /\ heap[calls[i].client].class = "WebhookClient"
            /\ calls[i].ctx = "async" =>
                  /\ calls[i].path = "async"
                  /\ heap[calls[i].client].class = "AsyncWebhookClient"
            /\ heap[calls[i].client].url = get_secret_value(webhook.url)
            /\ \A k \in WireOf(i) : wire[k].client = calls[i].client

C8_Witness ==
    \E i \in Calls, j \in Calls :
        /\ Notify(i) /\ Notify(j)
        /\ calls[i].op = "notify" /\ calls[i].ctx = "blocking"
        /\ calls[j].op = "notify" /\ calls[j].ctx = "async"
        /\ heap[calls[i].client].class = "WebhookClient"
        /\ heap[calls[j].client].class = "AsyncWebhookClient"
        /\ WireOf(i) # {} /\ WireOf(j) # {}

C10_CredentialsGetClient ==
    \A i \in Calls :
        calls[i].op = "SlackCredentials.get_client" =>
            LET h == heap[calls[i].client] IN
            /\ h.class = "AsyncWebClient"
            /\ h.token \in { c.token : c \in Configs }
            /\ h.token # ""
            /\ SecretStr(h.token) = creds.token
            /\ calls[i].result = Returned
            /\ \A j \in Calls : j # i => calls[j].client # calls[i].client
            /\ \A k \in 1..Len(wire) :
                  wire[k].client # calls[i].client /\ wire[k].call # i

C10_Witness ==
    \E i \in Calls, j \in Calls :
        /\ i < j
        /\ calls[i].op = "SlackCredentials.get_client"
        /\ calls[j].op = "SlackCredentials.get_client"
        /\ calls[i].client # calls[j].client
        /\ heap[calls[i].client].token = heap[calls[j].client].token

====
